---- MODULE Spec2Model ----
(***************************************************************************)
(* Model of comfy_purge_loras/__init__.py: the node PurgeLoRAsWhenDiskFull *)
(* (run), the eviction engine (_purge_oldest_until_below), its helpers     *)
(* (_disk_usage_percent, _collect_lora_files, _mtime_safe) and the trash   *)
(* sweep (_clear_user_trash), running against a filesystem that external   *)
(* processes may change between any two system calls of the run.           *)
(*                                                                         *)
(* Strings are sequences of one-character strings, so that lower(),        *)
(* split(","), strip(), Path.suffix and the substring test are computed.   *)
(* Time is in seconds.  Disk space is in blocks.                           *)
(***************************************************************************)
EXTENDS Integers, Sequences, FiniteSets, TLC

\* ------------------------------------------------------------------ bounds

NFiles == 3        \* paths under the LoRA directory
MaxExt == 1        \* steps of external processes during one run

Paths == 1..NFiles

\* ------------------------------------------------------------ the fixtures

\* File names of the paths (cycled when there are more paths than names).
NameTable ==
  << <<"a", ".", "s">>,
     <<"K", "e", "e", "p", ".", "S">>,
     <<"b", ".", "T">>,
     <<".", "s">> >>

NameOf(p) == NameTable[((p - 1) % Len(NameTable)) + 1]

\* Blocks each path occupies while it is a regular file.
SizeTable == <<1, 2, 1, 2>>

SizeOf(p) == SizeTable[((p - 1) % Len(SizeTable)) + 1]

\* Total blocks of the filesystem holding the LoRA directory.
DiskTotal == 20

\* Seconds per minute: min_age_seconds = int(min_age_minutes * 60).
SecPerMin == 60

\* ------------------------------------------------------------ str helpers

UpperToLower ==
  [c \in {"A", "B", "E", "K", "P", "S", "T"} |->
     CASE c = "A" -> "a" [] c = "B" -> "b" [] c = "E" -> "e" [] c = "K" -> "k"
       [] c = "P" -> "p" [] c = "S" -> "s" [] c = "T" -> "t"]

\* str.lower()
Lower(s) == [i \in 1..Len(s) |-> IF s[i] \in DOMAIN UpperToLower
                                   THEN UpperToLower[s[i]] ELSE s[i]]

\* str.strip()
RECURSIVE LStrip(_)
LStrip(s) == IF s # <<>> /\ Head(s) = " " THEN LStrip(Tail(s)) ELSE s

RECURSIVE RStrip(_)
RStrip(s) == IF s # <<>> /\ s[Len(s)] = " "
               THEN RStrip(SubSeq(s, 1, Len(s) - 1)) ELSE s

Strip(s) == RStrip(LStrip(s))

\* str.split(","): the fields between commas, empty fields included.
RECURSIVE SplitComma(_, _)
SplitComma(s, cur) ==
  IF s = <<>> THEN <<cur>>
  ELSE IF Head(s) = "," THEN <<cur>> \o SplitComma(Tail(s), <<>>)
  ELSE SplitComma(Tail(s), Append(cur, Head(s)))

\* run._csv_list: [x.strip() for x in (s or "").split(",") if x.strip()]
RECURSIVE DropEmpty(_)
DropEmpty(xs) ==
  IF xs = <<>> THEN <<>>
  ELSE IF Strip(Head(xs)) = <<>> THEN DropEmpty(Tail(xs))
  ELSE <<Strip(Head(xs))>> \o DropEmpty(Tail(xs))

CsvList(s) == DropEmpty(SplitComma(s, <<>>))

\* x.lower() if x.startswith(".") else "." + x.lower()
NormSuffix(x) == IF Head(x) = "." THEN Lower(x) ELSE <<".">> \o Lower(x)

\* tuple(... for x in _csv_list(allowed_suffixes_csv)), as the set `in` tests
AllowedSuffixes(csv) == {NormSuffix(CsvList(csv)[i]) : i \in 1..Len(CsvList(csv))}

\* tuple(x.lower() for x in _csv_list(exclude_names_csv))
ExcludeNames(csv) == {Lower(CsvList(csv)[i]) : i \in 1..Len(CsvList(csv))}

\* Path.suffix: the name from its last dot on; empty when the name has no
\* dot, only a leading dot, or ends with the dot.
LastDot(s) == IF \E i \in 1..Len(s) : s[i] = "."
                THEN CHOOSE i \in 1..Len(s) :
                       s[i] = "." /\ \A j \in (i + 1)..Len(s) : s[j] # "."
                ELSE 0

Suffix(s) == IF LastDot(s) > 1 /\ LastDot(s) < Len(s)
               THEN SubSeq(s, LastDot(s), Len(s)) ELSE <<>>

\* x in name_lower
IsSubstring(x, s) ==
  \E i \in 0..(Len(s) - Len(x)) : SubSeq(s, i + 1, i + Len(x)) = x

\* -------------------------------------------------------------- the state

VARIABLES
  args,               \* the arguments of run()
  rootExists,         \* loras_dir.exists()
  rootIsDir,          \* loras_dir.is_dir()
  fs,                 \* path -> [kind, mtime]: the tree under loras_dir
  otherUsed,          \* blocks used by everything but the paths
  trash,              \* $HOME/.local/share/Trash/files: "absent" | "full"
  clock,              \* time.time()
  extLeft,            \* steps external processes may still take
  pc,                 \* where the run is
  before_used_pct,    \* <<>> until probed, then <<percentage>>
  after_used_pct_now, \* <<>> until re-probed, then <<percentage>>
  files,              \* the candidate list of _purge_oldest_until_below
  keys,               \* the sort keys read by _mtime_safe, one per candidate
  idx,                \* position in files (key reading, then the loop)
  now,                \* <<>>, then <<time.time()>> read before the loop
  st,                 \* the last f.stat()
  files_deleted, bytes_freed, lines,
  res,                \* the dict _purge_oldest_until_below returns
  ret,                \* the tuple run() returns
  deleted,            \* history: the deletions counted, in order
  removed,            \* history: the paths the run itself removed from disk
  swept,              \* history: the run emptied a trash folder that held files
  touched,            \* history: the paths external processes changed
  probes,             \* history: calls of _disk_usage_percent
  visits,             \* history: candidates the loop has taken up, in order
  prev                \* history: what the previous execution of the node counted

fsVars == <<fs, otherUsed, trash, clock, extLeft, rootExists, rootIsDir, args>>
engVars == <<before_used_pct, after_used_pct_now, files, keys, idx, now, st,
             files_deleted, bytes_freed, lines, res>>
histVars == <<deleted, removed, swept, touched, probes, visits>>
vars == <<fsVars, engVars, histVars, pc, ret, prev>>

None == [none |-> TRUE]

\* ----------------------------------------------------------- the inputs

ThresholdChoices == {90}
TargetChoices == {85, 90, 95}
\* (allowed_suffixes_csv, exclude_names_csv): "S" with "", "" with "Ee, ",
\* and "T" with "b", which leaves no candidate.
FilterChoices ==
  { [allowed |-> <<"S">>, exclude |-> <<>>],
    [allowed |-> <<>>, exclude |-> <<"E", "e", ",", " ">>],
    [allowed |-> <<"T">>, exclude |-> <<"b">>] }
LimitChoices == {0, 1}
MinAgeChoices == {0, 1}
MtimeChoices == {0, 60}
StartClock == 90

\* ------------------------------------------------- helpers of the module

RECURSIVE SumSizes(_)
SumSizes(S) == IF S = {} THEN 0
               ELSE LET p == CHOOSE q \in S : TRUE
                    IN SizeOf(p) + SumSizes(S \ {p})

RegularFiles == {p \in Paths : fs[p].kind = "file"}

Used == otherUsed + SumSizes(RegularFiles)

\* Initially the disk is 1, 2 or 3 blocks short of full.
OtherUsedChoices == {DiskTotal - SumSizes(Paths) - d : d \in 1..3}

\* _disk_usage_percent: (used / total) * 100.0, total taken as 1 when 0.
\* The quotient is floored; every percentage it is compared with is whole.
DiskUsagePercent ==
  (Used * 100) \div (IF DiskTotal # 0 THEN DiskTotal ELSE 1)

\* run: the policy handed to the engine.
ThresholdPercent == args.threshold_percent

\* A slip: > for >=.
TargetLowered_Strict(target, threshold) ==
  IF target > threshold THEN threshold - 1 ELSE target

\* lines 288-289: target_percent >= threshold_percent is replaced by
\* threshold_percent - 1.0
TargetLowered(target, threshold) ==
  IF target >= threshold THEN threshold - 1 ELSE target

TargetPercent == TargetLowered(args.target_percent, args.threshold_percent)

allowed_suffixes == AllowedSuffixes(args.allowed_suffixes_csv)

exclude_names == ExcludeNames(args.exclude_names_csv)

min_age_seconds == args.min_age_minutes * SecPerMin

delete_count_limit == args.delete_count_limit

dry_run == args.dry_run

\* A slip: the excluded names are not looked at.
Keep_SuffixOnly(p) ==
  allowed_suffixes # {} => Lower(Suffix(NameOf(p))) \in allowed_suffixes

\* _collect_lora_files: the test a regular file passes to be collected.
Keep(p) ==
  /\ (allowed_suffixes # {} => Lower(Suffix(NameOf(p))) \in allowed_suffixes)
  /\ ~ \E x \in exclude_names : IsSubstring(x, Lower(NameOf(p)))

\* _collect_lora_files: rglob in a fixed order (ascending path).
RECURSIVE CollectFrom(_)
CollectFrom(p) ==
  IF p > NFiles THEN <<>>
  ELSE (IF fs[p].kind = "file" /\ Keep(p) THEN <<p>> ELSE <<>>)
         \o CollectFrom(p + 1)

\* line 42: not loras_dir.exists() or not loras_dir.is_dir()
CollectLoraFiles ==
  IF ~rootExists \/ ~rootIsDir THEN <<>> ELSE CollectFrom(1)

\* list.sort(key=...): stable, ascending by key.  Insert x with key k after
\* every element whose key is <= k.
RECURSIVE InsertByKey(_, _, _, _)
InsertByKey(fsq, ksq, x, k) ==
  IF fsq = <<>> THEN <<x>>
  ELSE IF Head(ksq) <= k
         THEN <<Head(fsq)>> \o InsertByKey(Tail(fsq), Tail(ksq), x, k)
         ELSE <<x>> \o fsq

KeysOf(sorted, fsq, ksq) ==
  [i \in 1..Len(sorted) |->
     ksq[CHOOSE j \in 1..Len(fsq) : fsq[j] = sorted[i]]]

RECURSIVE SortPrefix(_, _, _)
SortPrefix(fsq, ksq, n) ==
  IF n = 0 THEN <<>>
  ELSE LET done == SortPrefix(fsq, ksq, n - 1)
       IN InsertByKey(done, KeysOf(done, fsq, ksq), fsq[n], ksq[n])

\* A slip: the list is left in the order of enumeration.
SortByKey_Unsorted(fsq, ksq) == fsq

SortByKey(fsq, ksq) == SortPrefix(fsq, ksq, Len(fsq))

\* ------------------------------------------------------------------ Init

Init ==
  /\ \E flt \in FilterChoices :
       args \in [threshold_percent : ThresholdChoices,
                 target_percent : TargetChoices,
                 allowed_suffixes_csv : {flt.allowed},
                 exclude_names_csv : {flt.exclude},
                 min_age_minutes : MinAgeChoices,
                 delete_count_limit : LimitChoices,
                 dry_run : BOOLEAN]
  /\ rootExists \in BOOLEAN
  /\ rootIsDir \in {d \in BOOLEAN : d => rootExists}
  /\ fs \in [Paths -> [kind : {"file"}, mtime : MtimeChoices]]
  /\ otherUsed \in OtherUsedChoices
  /\ trash = "full"
  /\ clock = StartClock
  /\ extLeft = MaxExt
  /\ pc = "start"
  /\ before_used_pct = <<>> /\ after_used_pct_now = <<>>
  /\ files = <<>> /\ keys = <<>> /\ idx = 0
  /\ now = <<>> /\ st = None
  /\ files_deleted = 0 /\ bytes_freed = 0 /\ lines = <<>>
  /\ res = None /\ ret = None
  /\ deleted = <<>> /\ removed = {} /\ swept = FALSE /\ touched = {}
  /\ probes = 0 /\ visits = <<>>
  /\ prev = None

\* --------------------------------------------------------- run(), entry

\* A slip: the exception is caught, a fallback percentage of 0 is reported
\* and the run goes on to its sweep and return.
Raise_Fallback(how) ==
  /\ pc' = "sweep"
  /\ res' = [triggered |-> FALSE, before_used_pct |-> 0, after_used_pct |-> 0,
             files_deleted |-> files_deleted, bytes_freed |-> bytes_freed,
             log |-> << <<"NO_PURGE">> >>]
  /\ UNCHANGED <<before_used_pct, after_used_pct_now, files, keys, idx, now,
                 st, files_deleted, bytes_freed, lines>>

\* An exception leaves _purge_oldest_until_below and run: their locals are
\* gone and nothing is returned.
Raise(how) ==
  /\ pc' = how
  /\ before_used_pct' = <<>> /\ after_used_pct_now' = <<>>
  /\ files' = <<>> /\ keys' = <<>> /\ idx' = 0
  /\ now' = <<>> /\ st' = None
  /\ files_deleted' = 0 /\ bytes_freed' = 0 /\ lines' = <<>>
  /\ res' = None

\* run, lines 268-272: the LoRA path does not exist.
RunMissingRoot ==
  /\ pc = "start" /\ ~rootExists
  /\ probes' = probes + 1
  /\ \/ /\ ret' = [log |-> << <<"WARN">> >>,
                   used_before_pct |-> DiskUsagePercent,
                   used_after_pct |-> DiskUsagePercent,
                   files_deleted |-> 0, bytes_freed |-> 0]
        /\ pc' = "returned"
        /\ UNCHANGED engVars
     \/ /\ Raise("raised_probe")                \* shutil.disk_usage raises
        /\ UNCHANGED ret
  /\ UNCHANGED <<fsVars, deleted, removed, swept, touched, visits>>
  /\ UNCHANGED prev

\* run, lines 274-302: normalise the inputs and call the engine.
RunCallEngine ==
  /\ pc = "start" /\ rootExists
  /\ pc' = "probe0"
  /\ UNCHANGED <<fsVars, engVars, histVars, ret>>
  /\ UNCHANGED prev

\* ------------------------------------------- _purge_oldest_until_below

\* A slip: <= for <.
BelowThreshold_AtOrBelow(pct, threshold) == pct <= threshold

\* line 93: before_used_pct < threshold_percent
BelowThreshold(pct, threshold) == pct < threshold

\* lines 91-101: the initial probe and the NOT_TRIGGERED return.
EngineEntry ==
  /\ pc = "probe0"
  /\ probes' = probes + 1
  /\ \/ /\ BelowThreshold(DiskUsagePercent, ThresholdPercent)
        /\ before_used_pct' = <<DiskUsagePercent>>
        /\ res' = [triggered |-> FALSE,
                   before_used_pct |-> DiskUsagePercent,
                   after_used_pct |-> DiskUsagePercent,
                   files_deleted |-> 0, bytes_freed |-> 0,
                   log |-> << <<"NO_PURGE">> >>]
        /\ pc' = "sweep"
        /\ UNCHANGED <<after_used_pct_now, files, keys, idx, now, st,
                       files_deleted, bytes_freed, lines>>
     \/ /\ ~BelowThreshold(DiskUsagePercent, ThresholdPercent)
        /\ before_used_pct' = <<DiskUsagePercent>>
        /\ pc' = "collect"
        /\ UNCHANGED <<after_used_pct_now, files, keys, idx, now, st,
                       files_deleted, bytes_freed, lines, res>>
     \/ Raise("raised_probe")                   \* shutil.disk_usage raises
  /\ UNCHANGED <<fsVars, ret, deleted, removed, swept, touched, visits>>
  /\ UNCHANGED prev

\* line 103: files = _collect_lora_files(...)
Collect ==
  /\ pc = "collect"
  /\ files' = CollectLoraFiles
  /\ keys' = <<>>
  /\ idx' = 1
  /\ pc' = "sortkeys"
  /\ UNCHANGED <<fsVars, before_used_pct, after_used_pct_now, now, st,
                 files_deleted, bytes_freed, lines, res, ret, histVars>>
  /\ UNCHANGED prev

\* line 104 with _mtime_safe (57-61): the key of one candidate.  A vanished
\* file gets time.time(); any other OSError of stat() is not caught.
ReadSortKey ==
  /\ pc = "sortkeys" /\ idx <= Len(files)
  /\ LET f == files[idx] IN
       \/ /\ fs[f].kind = "absent"              \* FileNotFoundError
          /\ keys' = Append(keys, clock)
          /\ idx' = idx + 1
          /\ UNCHANGED <<pc, before_used_pct, after_used_pct_now, files, now,
                         st, files_deleted, bytes_freed, lines, res>>
       \/ /\ fs[f].kind # "absent"
          /\ keys' = Append(keys, fs[f].mtime)
          /\ idx' = idx + 1
          /\ UNCHANGED <<pc, before_used_pct, after_used_pct_now, files, now,
                         st, files_deleted, bytes_freed, lines, res>>
       \/ /\ fs[f].kind # "absent"              \* stat(): PermissionError
          /\ Raise("raised_stat")
  /\ UNCHANGED <<fsVars, ret, histVars>>
  /\ UNCHANGED prev

Header == << <<"PURGING">>, <<"TARGET">>, <<"SUFFIXES">>, <<"EXCLUDED">>,
             <<"POLICY">>, <<"BLANK">>, <<"DELETIONS">> >>

\* lines 104-117: the sort itself, now = time.time(), the counters, the header.
SortAndStart ==
  /\ pc = "sortkeys" /\ idx > Len(files)
  /\ files' = SortByKey(files, keys)
  /\ keys' = KeysOf(SortByKey(files, keys), files, keys)
  /\ now' = <<clock>>
  /\ bytes_freed' = 0 /\ files_deleted' = 0
  /\ lines' = Header
  /\ idx' = 1
  /\ pc' = "loop"
  /\ UNCHANGED <<fsVars, before_used_pct, after_used_pct_now, st,
                 res, ret, histVars>>
  /\ UNCHANGED prev

\* A slip: > for >=.
LimitReached_OneMore(limit, n) == limit # 0 /\ n > limit

\* line 121: delete_count_limit and files_deleted >= delete_count_limit
LimitReached(limit, n) == limit # 0 /\ n >= limit

\* A slip: the test for "no minimum age" is dropped and one minute applies.
TooYoung_NoZeroTest(mtime) == (now[1] - mtime) < SecPerMin

\* line 130: min_age_seconds > 0 and (now - st.st_mtime) < min_age_seconds
TooYoung(mtime) == min_age_seconds > 0 /\ (now[1] - mtime) < min_age_seconds

\* line 120: the for loop has no candidate left.
LoopExhausted ==
  /\ pc = "loop" /\ idx > Len(files)
  /\ pc' = "final"
  /\ UNCHANGED <<fsVars, engVars, histVars, ret>>
  /\ UNCHANGED prev

\* A slip: the loop stops at the limit without its log line.
LoopLimit_Silent ==
  /\ pc = "loop" /\ idx <= Len(files)
  /\ LimitReached(delete_count_limit, files_deleted)
  /\ pc' = "final"
  /\ UNCHANGED <<fsVars, engVars, histVars, ret, prev>>

\* lines 121-123: the deletion limit stops the loop.
LoopLimit ==
  /\ pc = "loop" /\ idx <= Len(files)
  /\ LimitReached(delete_count_limit, files_deleted)
  /\ lines' = Append(lines, <<"STOP">>)
  /\ pc' = "final"
  /\ UNCHANGED <<fsVars, before_used_pct, after_used_pct_now, files, keys, idx,
                 now, st, files_deleted, bytes_freed, res, ret, histVars>>
  /\ UNCHANGED prev

\* The value of the most recent probe.
LastProbe == IF after_used_pct_now # <<>> THEN after_used_pct_now[1]
             ELSE before_used_pct[1]

\* The record of one counted deletion: what stat() had read, the sort key,
\* what the path was on disk at that moment and when, the last probe before
\* it, whether the run removed the file from disk.
Counted(f, stat, real) ==
  [f |-> f, st_mtime |-> stat.st_mtime, size |-> stat.st_size,
   key |-> keys[idx], kind |-> fs[f].kind, mtime |-> fs[f].mtime,
   at |-> clock, probe |-> LastProbe, real |-> real]

\* lines 125-139: stat the candidate, skip it when vanished or too young,
\* count it in dry-run, go on to unlink otherwise.
LoopStat ==
  /\ pc = "loop" /\ idx <= Len(files)
  /\ ~LimitReached(delete_count_limit, files_deleted)
  /\ visits' = Append(visits, files[idx])
  /\ LET f == files[idx]
         stat == [st_mtime |-> fs[f].mtime,
                  st_size |-> IF fs[f].kind = "file" THEN SizeOf(f) ELSE 0]
     IN
       \/ /\ fs[f].kind = "absent"              \* FileNotFoundError: continue
          /\ idx' = idx + 1
          /\ UNCHANGED <<pc, st, files_deleted, bytes_freed, lines, deleted,
                         before_used_pct, after_used_pct_now, files, keys,
                         now, res>>
       \/ /\ fs[f].kind # "absent"              \* stat(): PermissionError
          /\ Raise("raised_stat")
          /\ UNCHANGED deleted
       \/ /\ fs[f].kind # "absent" /\ TooYoung(stat.st_mtime)
          /\ st' = stat
          /\ idx' = idx + 1
          /\ UNCHANGED <<pc, files_deleted, bytes_freed, lines, deleted,
                         before_used_pct, after_used_pct_now, files, keys,
                         now, res>>
       \/ /\ fs[f].kind # "absent" /\ ~TooYoung(stat.st_mtime) /\ dry_run
          /\ st' = stat
          /\ files_deleted' = files_deleted + 1
          /\ bytes_freed' = bytes_freed + stat.st_size
          /\ lines' = Append(lines, <<"DRY_RUN", f>>)
          /\ deleted' = Append(deleted, Counted(f, stat, FALSE))
          /\ pc' = "reprobe"
          /\ UNCHANGED <<idx, before_used_pct, after_used_pct_now, files, keys,
                         now, res>>
       \/ /\ fs[f].kind # "absent" /\ ~TooYoung(stat.st_mtime) /\ ~dry_run
          /\ st' = stat
          /\ pc' = "unlink"
          /\ UNCHANGED <<idx, files_deleted, bytes_freed, lines, deleted,
                         before_used_pct, after_used_pct_now, files, keys,
                         now, res>>
  /\ UNCHANGED <<fsVars, ret, removed, swept, touched, probes>>
  /\ UNCHANGED prev

\* lines 141-151: f.unlink(missing_ok=True) and its handlers.
Unlink ==
  /\ pc = "unlink"
  /\ LET f == files[idx] IN
       \/ /\ fs[f].kind = "file"                \* the file is removed
          /\ fs' = [fs EXCEPT ![f].kind = "absent"]
          /\ removed' = removed \cup {f}
          /\ files_deleted' = files_deleted + 1
          /\ bytes_freed' = bytes_freed + st.st_size
          /\ lines' = Append(lines, <<"DELETED", f>>)
          /\ deleted' = Append(deleted, Counted(f, st, TRUE))
       \/ /\ fs[f].kind = "absent"              \* missing_ok: no error
          /\ files_deleted' = files_deleted + 1
          /\ bytes_freed' = bytes_freed + st.st_size
          /\ lines' = Append(lines, <<"DELETED", f>>)
          /\ deleted' = Append(deleted, Counted(f, st, FALSE))
          /\ UNCHANGED <<fs, removed>>
       \/ /\ fs[f].kind = "file"                \* PermissionError
          /\ lines' = Append(lines, <<"SKIP_PERMISSION", f>>)
          /\ UNCHANGED <<fs, removed, files_deleted, bytes_freed, deleted>>
       \/ /\ fs[f].kind = "dir"                 \* IsADirectoryError
          /\ lines' = Append(lines, <<"SKIP_DIRECTORY", f>>)
          /\ UNCHANGED <<fs, removed, files_deleted, bytes_freed, deleted>>
       \/ /\ fs[f].kind = "file"                \* any other Exception
          /\ lines' = Append(lines, <<"SKIP_OTHER", f>>)
          /\ UNCHANGED <<fs, removed, files_deleted, bytes_freed, deleted>>
  /\ pc' = "reprobe"
  /\ UNCHANGED <<otherUsed, trash, clock, extLeft, rootExists, rootIsDir, args,
                 before_used_pct, after_used_pct_now, files, keys, idx, now, st,
                 res, ret, swept, touched, probes, visits>>
  /\ UNCHANGED prev

\* A slip: <= for <.
BelowTarget_AtOrBelow(pct, target) == pct <= target

\* A slip: the fresh percentage is compared with the threshold.
BelowTarget_Threshold(pct, target) == pct <= ThresholdPercent

\* A slip: the percentage read at entry is tested, not the fresh one.
BelowTarget_Stale(pct, target) == before_used_pct[1] < target

\* line 155: after_used_pct_now < target_percent
BelowTarget(pct, target) == pct < target

\* lines 153-157: re-probe; stop when below the target.
Reprobe ==
  /\ pc = "reprobe"
  /\ probes' = probes + 1
  /\ \/ /\ BelowTarget(DiskUsagePercent, TargetPercent)
        /\ after_used_pct_now' = <<DiskUsagePercent>>
        /\ lines' = Append(lines, <<"OK_TARGET">>)
        /\ pc' = "final"
        /\ UNCHANGED <<idx, before_used_pct, files, keys, now, st,
                       files_deleted, bytes_freed, res>>
     \/ /\ ~BelowTarget(DiskUsagePercent, TargetPercent)
        /\ after_used_pct_now' = <<DiskUsagePercent>>
        /\ idx' = idx + 1
        /\ pc' = "loop"
        /\ UNCHANGED <<lines, before_used_pct, files, keys, now, st,
                       files_deleted, bytes_freed, res>>
     \/ Raise("raised_probe")                   \* shutil.disk_usage raises
  /\ UNCHANGED <<fsVars, ret, deleted, removed, swept, touched, visits>>
  /\ UNCHANGED prev

\* lines 159-173: the final probe and the result.
Final ==
  /\ pc = "final"
  /\ probes' = probes + 1
  /\ \/ /\ res' = [triggered |-> TRUE,
                   before_used_pct |-> before_used_pct[1],
                   after_used_pct |-> DiskUsagePercent,
                   files_deleted |-> files_deleted,
                   bytes_freed |-> bytes_freed,
                   log |-> << <<"FREED", bytes_freed, files_deleted>>,
                              <<"USAGE", before_used_pct[1], DiskUsagePercent>>,
                              <<"BLANK">> >> \o lines]
        /\ pc' = "sweep"
        /\ UNCHANGED <<before_used_pct, after_used_pct_now, files, keys, idx,
                       now, st, files_deleted, bytes_freed, lines>>
     \/ Raise("raised_probe")                   \* shutil.disk_usage raises
  /\ UNCHANGED <<fsVars, ret, deleted, removed, swept, touched, visits>>
  /\ UNCHANGED prev

\* ------------------------------------------------- the sweep, the return

\* _clear_user_trash (175-190), called at line 305 whatever dry_run is;
\* then run's return (306-314).
Sweep ==
  /\ pc = "sweep"
  /\ \/ /\ trash = "absent"
        /\ ret' = [log |-> res.log \o << <<"BLANK">>, <<"TRASH_NOT_FOUND">> >>,
                   used_before_pct |-> res.before_used_pct,
                   used_after_pct |-> res.after_used_pct,
                   files_deleted |-> res.files_deleted,
                   bytes_freed |-> res.bytes_freed]
        /\ UNCHANGED <<trash, swept>>
     \/ /\ trash # "absent"                     \* shutil.rmtree(trash_path)
        /\ trash' = "absent"
        /\ swept' = TRUE
        /\ ret' = [log |-> res.log \o << <<"BLANK">>, <<"TRASH_CLEARED">> >>,
                   used_before_pct |-> res.before_used_pct,
                   used_after_pct |-> res.after_used_pct,
                   files_deleted |-> res.files_deleted,
                   bytes_freed |-> res.bytes_freed]
  /\ pc' = "returned"
  /\ UNCHANGED <<fs, otherUsed, clock, extLeft, rootExists, rootIsDir, args, engVars,
                 deleted, removed, touched, probes, visits>>
  /\ UNCHANGED prev

\* ------------------------------------------------- external processes

\* From the enumeration of the candidates to the final probe.
Running == pc \in {"collect", "sortkeys", "loop", "unlink", "reprobe", "final"}

\* External processes race with the run on the candidates it has still to
\* take up or is working on; their other traffic on the filesystem is ExtWrite.
Candidate(p) ==
  \E i \in 1..Len(files) :
    files[i] = p /\ (pc = "sortkeys" \/ (pc \in {"loop", "unlink"} /\ i >= idx))

\* Another process rewrites a file: its modified time becomes the present.
ExtTouch(p) ==
  /\ Running /\ extLeft > 0 /\ Candidate(p) /\ fs[p].kind = "file"
  /\ fs' = [fs EXCEPT ![p].mtime = clock]
  /\ extLeft' = extLeft - 1
  /\ touched' = touched \cup {p}
  /\ UNCHANGED <<otherUsed, trash, clock, rootExists, rootIsDir, args, engVars,
                 deleted, removed, swept, probes, visits, pc, ret>>
  /\ UNCHANGED prev

\* Another process removes a file.
ExtDelete(p) ==
  /\ Running /\ extLeft > 0 /\ Candidate(p) /\ fs[p].kind = "file"
  /\ fs' = [fs EXCEPT ![p].kind = "absent"]
  /\ extLeft' = extLeft - 1
  /\ touched' = touched \cup {p}
  /\ UNCHANGED <<otherUsed, trash, clock, rootExists, rootIsDir, args, engVars,
                 deleted, removed, swept, probes, visits, pc, ret>>
  /\ UNCHANGED prev

\* Another process replaces a file by a directory of the same name.
ExtMkdir(p) ==
  /\ Running /\ extLeft > 0 /\ Candidate(p) /\ fs[p].kind = "file"
  /\ fs' = [fs EXCEPT ![p] = [kind |-> "dir", mtime |-> clock]]
  /\ extLeft' = extLeft - 1
  /\ touched' = touched \cup {p}
  /\ UNCHANGED <<otherUsed, trash, clock, rootExists, rootIsDir, args, engVars,
                 deleted, removed, swept, probes, visits, pc, ret>>
  /\ UNCHANGED prev

\* Another process writes to or frees space on the same filesystem.
ExtWrite(d) ==
  /\ Running /\ extLeft > 0
  /\ otherUsed + d >= 0 /\ Used + d <= DiskTotal
  /\ otherUsed' = otherUsed + d
  /\ extLeft' = extLeft - 1
  /\ UNCHANGED <<fs, trash, clock, rootExists, rootIsDir, args, engVars,
                 histVars, pc, ret>>
  /\ UNCHANGED prev

\* Time passes.
Tick ==
  /\ Running /\ extLeft > 0
  /\ clock' = clock + SecPerMin
  /\ extLeft' = extLeft - 1
  /\ UNCHANGED <<fs, otherUsed, trash, rootExists, rootIsDir, args, engVars,
                 histVars, pc, ret>>
  /\ UNCHANGED prev

\* The user, or another process, empties the trash folder.
ExtEmptyTrash ==
  /\ Running /\ extLeft > 0 /\ trash = "full"
  /\ trash' = "absent"
  /\ extLeft' = extLeft - 1
  /\ UNCHANGED <<fs, otherUsed, clock, rootExists, rootIsDir, args, engVars,
                 histVars, pc, ret>>
  /\ UNCHANGED prev

External ==
  \/ \E p \in Paths : ExtTouch(p)
  \/ \E p \in Paths : ExtDelete(p)
  \/ \E p \in Paths : ExtMkdir(p)
  \/ \E d \in {-1, 1} : ExtWrite(d)
  \/ Tick
  \/ ExtEmptyTrash

Engine ==
  \/ RunMissingRoot \/ RunCallEngine
  \/ EngineEntry \/ Collect \/ ReadSortKey \/ SortAndStart
  \/ LoopExhausted \/ LoopLimit \/ LoopStat \/ Unlink \/ Reprobe \/ Final
  \/ Sweep

Next == Engine \/ External

Spec == Init /\ [][Next]_vars

\* The run is one sequential call: it keeps taking steps until it returns
\* or raises.
FairSpec == Spec /\ WF_vars(Engine)

\* ------------------------------------------------------ a second execution

\* The paths of the counted deletions, in the order they were counted.
DeletionList == [i \in 1..Len(deleted) |-> deleted[i].f]

\* ComfyUI executes the node again with the same inputs, at once or a minute
\* later: run() starts afresh with nothing kept from the execution before
\* it.  Re-executions of a dry run are followed, once; what the first
\* execution counted is remembered in prev.
Rerun ==
  /\ pc = "returned" /\ prev = None /\ dry_run
  /\ prev' = [deleted |-> DeletionList,
              files_deleted |-> ret.files_deleted,
              bytes_freed |-> ret.bytes_freed,
              now |-> now]
  /\ \E dt \in {0, SecPerMin} : clock' = clock + dt
  /\ pc' = "start"
  /\ before_used_pct' = <<>> /\ after_used_pct_now' = <<>>
  /\ files' = <<>> /\ keys' = <<>> /\ idx' = 0
  /\ now' = <<>> /\ st' = None
  /\ files_deleted' = 0 /\ bytes_freed' = 0 /\ lines' = <<>>
  /\ res' = None /\ ret' = None
  /\ deleted' = <<>> /\ removed' = {} /\ swept' = FALSE /\ touched' = {}
  /\ probes' = 0 /\ visits' = <<>>
  /\ UNCHANGED <<fs, otherUsed, trash, extLeft, rootExists, rootIsDir, args>>

RerunNext == Next \/ Rerun

RerunSpec == Init /\ [][RerunNext]_vars

\* ------------------------------------------------------------ the claims

Raised == pc \in {"raised_probe", "raised_stat"}

\* The engine has returned its result (run's sweep and return follow).
EngineReturned == pc \in {"sweep", "returned"} /\ res # None

\* The paths of the deletions counted so far.
DeletedPaths == {deleted[i].f : i \in 1..Len(deleted)}

RECURSIVE SumCounted(_)
SumCounted(ds) == IF ds = <<>> THEN 0 ELSE Head(ds).size + SumCounted(Tail(ds))

HasLine(tag) == \E k \in 1..Len(lines) : lines[k][1] = tag

\* C1: when the initial probe is strictly below threshold_percent the engine
\* returns at once with triggered = false, files_deleted = 0, bytes_freed = 0
\* and after == before, having probed once and neither enumerated, visited
\* nor deleted anything; when the probe is at or above the threshold the run
\* is a triggered one (it enumerates, and its result has triggered = true).
C1_NotTriggeredBelowThreshold ==
  before_used_pct # <<>> =>
    IF before_used_pct[1] < args.threshold_percent
      THEN /\ EngineReturned
           /\ res.triggered = FALSE
           /\ res.files_deleted = 0 /\ res.bytes_freed = 0
           /\ res.before_used_pct = before_used_pct[1]
           /\ res.after_used_pct = res.before_used_pct
           /\ files = <<>> /\ keys = <<>> /\ visits = <<>>
           /\ deleted = <<>> /\ removed = {} /\ probes = 1
           /\ (pc = "returned" =>
                 /\ ret.files_deleted = 0 /\ ret.bytes_freed = 0
                 /\ ret.used_after_pct = ret.used_before_pct)
      ELSE /\ pc \in {"collect", "sortkeys", "loop", "unlink", "reprobe",
                      "final", "sweep", "returned"}
           /\ (res # None => res.triggered = TRUE)

\* C1, its case: a run that was not triggered has returned.
C1_Witness ==
  /\ pc = "returned" /\ res # None /\ res.triggered = FALSE
  /\ before_used_pct[1] < args.threshold_percent

\* C2 as stated: whenever A is deleted (or simulated) before B, A's modified
\* time is not later than B's, and no eligible older file is left undeleted
\* while a newer eligible file is deleted.
EligibleNow(p) ==
  /\ \E i \in 1..Len(files) : files[i] = p
  /\ fs[p].kind = "file"
  /\ ~(min_age_seconds > 0 /\ (now[1] - fs[p].mtime) < min_age_seconds)

C2_Original ==
  /\ \A i, j \in 1..Len(deleted) :
       i < j => deleted[i].st_mtime <= deleted[j].st_mtime
  /\ \A j \in 1..Len(deleted) : \A p \in Paths :
       (EligibleNow(p) /\ p \notin DeletedPaths)
         => ~(fs[p].mtime < deleted[j].st_mtime)

NoDeletionFailed ==
  ~HasLine("SKIP_PERMISSION") /\ ~HasLine("SKIP_DIRECTORY")
    /\ ~HasLine("SKIP_OTHER")

\* C2, amended: deletions (real or simulated) proceed in ascending order of
\* the modified time read when the candidates were ordered (a vanished file
\* counting as the present); and when no deletion has failed and no external
\* process has changed a path, they proceed in ascending order of the
\* files' modified times and no eligible older candidate is left undeleted
\* while a newer one is deleted.
C2_OldestFirst ==
  /\ \A i, j \in 1..Len(deleted) : i < j => deleted[i].key <= deleted[j].key
  /\ (NoDeletionFailed /\ touched = {}) =>
       /\ \A i, j \in 1..Len(deleted) :
            i < j => deleted[i].st_mtime <= deleted[j].st_mtime
       /\ \A j \in 1..Len(deleted) : \A p \in Paths :
            (EligibleNow(p) /\ p \notin DeletedPaths)
              => ~(fs[p].mtime < deleted[j].st_mtime)

\* C2, its case: two deletions whose order the sort has reversed with
\* respect to the order of enumeration.
C2_Witness ==
  /\ Len(deleted) >= 2
  /\ deleted[1].f > deleted[2].f
  /\ deleted[1].st_mtime < deleted[2].st_mtime

\* The filters as the claim states them.
FilteredOut(p) ==
  \/ allowed_suffixes # {} /\ Lower(Suffix(NameOf(p))) \notin allowed_suffixes
  \/ \E x \in exclude_names : IsSubstring(x, Lower(NameOf(p)))

\* C3: a file whose lowercased extension is not in a non-empty allowed set,
\* or whose lowercased name contains an excluded substring, is never a
\* candidate: never listed, visited, deleted or removed, in dry-run or live,
\* and the counters count the recorded deletions only.
C3_FilteredNeverCandidate ==
  /\ \A p \in Paths : FilteredOut(p) =>
       /\ \A i \in 1..Len(files) : files[i] # p
       /\ \A i \in 1..Len(visits) : visits[i] # p
       /\ p \notin DeletedPaths
       /\ p \notin removed
  /\ ~Raised => /\ files_deleted = Len(deleted)
                /\ bytes_freed = SumCounted(deleted)

\* C3, its case: a run has deleted a file while a filtered-out file was there.
C3_Witness ==
  /\ pc = "returned" /\ Len(deleted) >= 1
  /\ \E p \in Paths : FilteredOut(p) /\ fs[p].kind = "file"
  /\ \E p \in Paths : ~FilteredOut(p) /\ p \in DeletedPaths

\* C4 as stated: with a minimum age set, a file younger than it (the time of
\* the deletion minus its modified time) is never deleted or counted,
\* whatever external processes do during the run.
C4_NeverDeletesYoung ==
  min_age_seconds > 0 =>
    \A i \in 1..Len(deleted) :
      deleted[i].kind = "file" =>
        (deleted[i].at - deleted[i].mtime) >= min_age_seconds

\* C5: with delete_count_limit > 0 at most that many files are deleted (or
\* simulated); with no limit the deletions are bounded by the candidates
\* taken up, each at most once.
C5_AtMostLimit ==
  /\ delete_count_limit > 0 =>
       /\ Len(deleted) <= delete_count_limit
       /\ files_deleted <= delete_count_limit
  /\ Len(deleted) <= Len(visits)
  /\ ~Raised => Len(visits) <= Len(files)
  /\ Len(visits) <= NFiles

\* C5, its case: the limit has stopped the loop with a candidate left.
C5_Witness ==
  /\ delete_count_limit > 0 /\ Len(deleted) = delete_count_limit
  /\ HasLine("STOP") /\ Len(visits) < Len(files)

NoRepeat(sq) == \A i, j \in 1..Len(sq) : i # j => sq[i] # sq[j]

Halted == pc = "returned" \/ Raised

\* The loop of a triggered run has ended.
LoopEnded ==
  /\ pc \in {"final", "sweep", "returned"}
  /\ before_used_pct # <<>>
  /\ before_used_pct[1] >= args.threshold_percent

StopReason ==
  \/ after_used_pct_now # <<>> /\ after_used_pct_now[1] < TargetPercent
  \/ delete_count_limit > 0 /\ files_deleted >= delete_count_limit
  \/ Len(visits) = Len(files)

\* C6: the run always halts (it returns, or an exception ends it), whatever
\* the candidates and the probes; no candidate is taken up twice; and when
\* the loop of a triggered run has ended, the last re-probe was below the
\* target, or the deletion limit is reached, or every candidate was taken up.
C6_AlwaysHalts ==
  /\ [](NoRepeat(visits) /\ (LoopEnded => StopReason))
  /\ <>Halted

\* C6, its case: a triggered run with no candidate at all has returned.
C6_Witness ==
  /\ pc = "returned" /\ res # None /\ res.triggered
  /\ files = <<>> /\ fs = [p \in Paths |-> [kind |-> "file", mtime |-> 0]]

\* C7: every deletion (real or simulated) follows a most recent probe at or
\* above target_percent; and once a re-probe has reported usage strictly
\* below the target the loop is over, with the target-reached line last in
\* the log and the candidates after the current one not taken up.
C7_StopsAtTarget ==
  /\ \A i \in 1..Len(deleted) : deleted[i].probe >= TargetPercent
  /\ (after_used_pct_now # <<>> /\ after_used_pct_now[1] < TargetPercent) =>
       /\ pc \in {"final", "sweep", "returned"}
       /\ lines[Len(lines)] = <<"OK_TARGET">>
       /\ Len(visits) = idx

\* C7, its case: the first deletion brought usage under the target and the
\* run returned with one deletion, the other candidate untouched.
C7_Witness ==
  /\ pc = "returned" /\ ~dry_run /\ touched = {} /\ extLeft = MaxExt
  /\ HasLine("OK_TARGET")
  /\ Len(deleted) = 1 /\ Len(visits) = 1 /\ Len(files) = 2
  /\ fs[files[2]].kind = "file"

\* C8 as stated: a complete run with dry_run = true removes nothing from the
\* filesystem, neither a candidate nor what the trash folder holds.
C8_DryRunRemovesNothing == dry_run => (removed = {} /\ ~swept)

\* C9 as stated: every run that returns has run the sweep after the
\* eviction phase, and its log ends with the sweep's line.
C9_SweepInEveryRun ==
  pc = "returned" =>
    ret.log[Len(ret.log)][1] \in {"TRASH_NOT_FOUND", "TRASH_CLEARED"}

\* C10 as stated: no failure of stat() on a candidate, while ordering or in
\* the loop, ends the run.
C10_StatFailureNeverAborts == pc # "raised_stat"

\* The log lines of deletions that failed.
SkipTags == {"SKIP_PERMISSION", "SKIP_DIRECTORY", "SKIP_OTHER"}

PosInFiles(f) == CHOOSE i \in 1..Len(files) : files[i] = f

\* C11 as stated: in live mode a deletion that fails is not counted and the
\* engine continues with the next candidate (whenever the loop has ended, the
\* candidate after a failed one was taken up); and a quiet live run in which
\* no deletion succeeded ends exhausted, every candidate taken up, with
\* files_deleted = 0 and bytes_freed = 0.
C11_FailedDeletionContinues ==
  /\ \A k \in 1..Len(lines) : lines[k][1] \in SkipTags =>
       LET f == lines[k][2] IN
         /\ f \notin DeletedPaths /\ f \notin removed
         /\ (pc \in {"final", "sweep", "returned"}
               /\ PosInFiles(f) < Len(files)) => Len(visits) > PosInFiles(f)
  /\ (/\ pc = "returned" /\ res # None /\ res.triggered /\ ~dry_run
      /\ extLeft = MaxExt /\ deleted = <<>>) =>
       /\ ~HasLine("STOP") /\ ~HasLine("OK_TARGET")
       /\ Len(visits) = Len(files)
       /\ ret.files_deleted = 0 /\ ret.bytes_freed = 0

\* C12 as stated: no file is counted twice; a candidate that has vanished
\* by the time the engine deletes it is not counted (every counted path was
\* still on disk at that moment); and so in live mode files_deleted is the
\* number of files the run itself removed.
C12_VanishedNeverCounted ==
  /\ NoRepeat(DeletionList)
  /\ \A i \in 1..Len(deleted) : deleted[i].kind # "absent"
  /\ (~dry_run /\ ~Raised) => files_deleted = Cardinality(removed)

\* A dry run was executed twice and no external process took a step during
\* either execution: the filesystem is what it was before the first one.
SecondRunDone ==
  pc = "returned" /\ prev # None /\ dry_run /\ extLeft = MaxExt

SameDeletions ==
  /\ DeletionList = prev.deleted
  /\ ret.files_deleted = prev.files_deleted
  /\ ret.bytes_freed = prev.bytes_freed

\* C13 as stated: two dry runs with the same policy on an unchanged
\* filesystem give the same list of simulated deletions, in the same order,
\* and the same bytes_freed.
C13_Original == SecondRunDone => SameDeletions

\* No file is too young at one of the two readings of time.time() (line 106)
\* and old enough at the other.
SameAgeVerdicts ==
  \/ now = <<>> \/ prev.now = <<>>
  \/ \A p \in Paths :
       ((prev.now[1] - fs[p].mtime) < min_age_seconds)
         = ((now[1] - fs[p].mtime) < min_age_seconds)

\* C13: two dry runs with the same policy on an unchanged filesystem give
\* the same list of simulated deletions, in the same order, and the same
\* bytes_freed, provided no file passes the minimum age between the two
\* runs (always so when min_age_minutes = 0).
C13_DryRunRepeatable == (SecondRunDone /\ SameAgeVerdicts) => SameDeletions

\* C13, its case: with a minimum age set, a second dry run a minute after
\* the first has counted the same two files.
C13_Witness ==
  /\ SecondRunDone /\ min_age_seconds > 0
  /\ now # <<>> /\ prev.now # <<>> /\ now # prev.now
  /\ Len(deleted) = 2 /\ DeletionList = prev.deleted

\* run has called _purge_oldest_until_below (line 292).
EngineInvoked == rootExists /\ pc # "start"

\* C14: whenever the engine is invoked its target_percent is strictly below
\* its threshold_percent: a target at or above the threshold has been
\* replaced by threshold - 1, a target below it is passed unchanged; so a
\* loop stopped by a re-probe below target stopped below the threshold.
C14_TargetBelowThreshold ==
  EngineInvoked =>
    /\ TargetPercent < ThresholdPercent
    /\ (args.target_percent >= args.threshold_percent =>
          TargetPercent = args.threshold_percent - 1)
    /\ (args.target_percent < args.threshold_percent =>
          TargetPercent = args.target_percent)
    /\ (HasLine("OK_TARGET") => after_used_pct_now[1] < ThresholdPercent)

\* C14, its case: a run given a target above its threshold has stopped on a
\* re-probe below the lowered target.
C14_Witness ==
  /\ pc = "returned" /\ args.target_percent > args.threshold_percent
  /\ HasLine("OK_TARGET")
  /\ after_used_pct_now[1] < args.threshold_percent - 1

\* C15 as stated: when loras_path is missing or is not a directory, the run
\* returns a warning and skips eviction: zero deletions, zero bytes freed,
\* one usage percentage reported as both before and after, and no candidate
\* enumerated, taken up or deleted.
C15_NoDirectoryWarnsAndSkips ==
  (pc = "returned" /\ (~rootExists \/ ~rootIsDir)) =>
    /\ ret.log[1][1] = "WARN"
    /\ ret.files_deleted = 0 /\ ret.bytes_freed = 0
    /\ ret.used_after_pct = ret.used_before_pct
    /\ files = <<>> /\ visits = <<>> /\ deleted = <<>> /\ removed = {}

\* C16: a failure of any usage probe (the one of a missing path, the initial
\* one, a re-probe, the final one) ends the run: every step that probes
\* either records the percentage it read or leaves the run raised with no
\* result; and a run so ended returns nothing and deletes nothing more.
C16_ProbeFailureFatal ==
  /\ [](pc = "raised_probe" => (ret = None /\ res = None))
  /\ [][ /\ probes' # probes =>
              \/ pc' = "raised_probe" /\ ret' = None /\ res' = None
              \/ /\ pc = "start" /\ ret' # None
                 /\ ret'.used_before_pct = DiskUsagePercent
              \/ pc = "probe0" /\ before_used_pct' = <<DiskUsagePercent>>
              \/ pc = "reprobe" /\ after_used_pct_now' = <<DiskUsagePercent>>
              \/ /\ pc = "final" /\ res' # None
                 /\ res'.after_used_pct = DiskUsagePercent
         /\ pc = "raised_probe" =>
              /\ pc' = pc /\ ret' = None
              /\ fs' = fs /\ removed' = removed /\ deleted' = deleted
       ]_vars

\* C16, its case: a probe failed after the run had removed a file.
C16_Witness == pc = "raised_probe" /\ removed # {} /\ ret = None

\* The engine of a triggered dry run has returned and no external process
\* took a step during the run.
DryQuietTriggered ==
  /\ pc \in {"sweep", "returned"} /\ res # None /\ res.triggered
  /\ dry_run /\ extLeft = MaxExt /\ touched = {}

\* The candidates, in the order of the loop, that exist and are not younger
\* than the minimum age; and those of them a deletion limit lets through.
Eligibles ==
  SelectSeq(files,
            LAMBDA p : fs[p].kind # "absent"
                       /\ ~(min_age_seconds > 0
                            /\ (now[1] - fs[p].mtime) < min_age_seconds))

ExpectedDryRun ==
  IF delete_count_limit > 0 /\ Len(Eligibles) > delete_count_limit
    THEN SubSeq(Eligibles, 1, delete_count_limit)
    ELSE Eligibles

\* C17: a triggered dry run that no external process disturbs never sees
\* usage below target; it counts exactly the candidates that exist and are
\* old enough, in order, up to the deletion limit when one is set;
\* bytes_freed is the sum of their sizes; after-usage equals before-usage
\* and nothing is removed.
C17_DryRunCountsEveryEligible ==
  DryQuietTriggered =>
    /\ ~HasLine("OK_TARGET")
    /\ DeletionList = ExpectedDryRun
    /\ res.files_deleted = Len(ExpectedDryRun)
    /\ res.bytes_freed
         = SumSizes({ExpectedDryRun[i] : i \in 1..Len(ExpectedDryRun)})
    /\ res.after_used_pct = res.before_used_pct
    /\ removed = {}

\* C17, its case: a quiet dry run with a minimum age returned having counted
\* one of its two candidates and skipped the one too young.
C17_Witness ==
  /\ DryQuietTriggered /\ pc = "returned"
  /\ min_age_seconds > 0 /\ delete_count_limit = 0
  /\ Len(visits) = 2 /\ Len(deleted) = 1 /\ res.bytes_freed > 0

\* The engine of a triggered run has returned.
TriggeredReturned ==
  pc \in {"sweep", "returned"} /\ res # None /\ res.triggered

LastTag == lines[Len(lines)][1]

LimitIsReached == delete_count_limit > 0 /\ files_deleted >= delete_count_limit

ProbedBelowTarget ==
  after_used_pct_now # <<>> /\ after_used_pct_now[1] < TargetPercent

OutOfCandidates == Len(visits) = Len(files)

\* C18 as stated: a triggered run ends in exactly one of LIMIT_REACHED (its
\* deletion count has reached the configured limit), TARGET_REACHED (a
\* re-probe was below target) and EXHAUSTED (no candidate left), and the log
\* has a stop line in the first case and a target-reached line in the second.
C18_Original ==
  TriggeredReturned =>
    /\ \/ LimitIsReached /\ ~ProbedBelowTarget /\ ~OutOfCandidates
       \/ ~LimitIsReached /\ ProbedBelowTarget /\ ~OutOfCandidates
       \/ ~LimitIsReached /\ ~ProbedBelowTarget /\ OutOfCandidates
    /\ (LimitIsReached => HasLine("STOP"))
    /\ (ProbedBelowTarget => HasLine("OK_TARGET"))

\* C18: the loop of a triggered run that returns ended in one of three ways,
\* told by the last line of the log: a stop line exactly when a further
\* candidate was about to be taken up with the deletion count at the
\* configured limit; a target-reached line exactly when a re-probe was
\* below target; neither line when the candidates ran out, be the limit
\* reached by the last of them or not.  No such line stands anywhere else.
C18_TerminalState ==
  TriggeredReturned =>
    /\ \A k \in 1..(Len(lines) - 1) : lines[k][1] \notin {"STOP", "OK_TARGET"}
    /\ (LastTag = "STOP") <=>
         (LimitIsReached /\ files_deleted = delete_count_limit
          /\ ~ProbedBelowTarget /\ ~OutOfCandidates)
    /\ (LastTag = "OK_TARGET") <=> ProbedBelowTarget
    /\ (LastTag \notin {"STOP", "OK_TARGET"}) => OutOfCandidates

\* C18, its case: the deletion of the last candidate reached the limit, and
\* the run returned exhausted, with no stop line.
C18_Witness ==
  /\ TriggeredReturned /\ pc = "returned"
  /\ LimitIsReached /\ OutOfCandidates /\ Len(files) = 2
  /\ ~HasLine("STOP") /\ ~HasLine("OK_TARGET")

\* The log lines that tell a deletion decision, in the order of the log.
DecisionLines ==
  SelectSeq(lines, LAMBDA l : l[1] \in {"DELETED", "DRY_RUN"} \cup SkipTags)

\* C19 as stated: when the loop has ended the log has one line per candidate
\* taken up, in visiting order (deleted, dry-run, or skipped with its
\* reason), and as many deleted/dry-run lines as files_deleted.
C19_OneLinePerDecision ==
  pc \in {"final", "sweep", "returned"} =>
    /\ [i \in 1..Len(DecisionLines) |-> DecisionLines[i][2]] = visits
    /\ files_deleted
         = Len(SelectSeq(lines, LAMBDA l : l[1] \in {"DELETED", "DRY_RUN"}))

\* C20 as stated: usage is re-probed after each counted deletion and at no
\* other point, so a triggered run that returns has probed 1 + the number
\* of counted deletions + 1 times, and a target-reached line directly
\* follows the line of a counted deletion.
C20_ReprobeOnlyAfterCounted ==
  TriggeredReturned =>
    /\ probes = 1 + Len(deleted) + 1
    /\ (HasLine("OK_TARGET") =>
          lines[Len(lines) - 1][1] \in {"DELETED", "DRY_RUN"})

====
